---- MODULE Spec2Model ----
(***************************************************************************)
(* Model of the oasdiff diff engine parts found under src/:                *)
(*   - diff/diff_result.go : DiffResult, its add* methods, FilterByRegex   *)
(*   - schema_list_diff.go : SchemaListDiff (src/unnamed/part_000, 1-206)  *)
(*   - method_diff.go      : MethodDiff     (src/unnamed/part_000, 208-272)*)
(* Strings that the code inspects character by character (endpoint         *)
(* identifiers, filter patterns) are sequences of one-character strings.   *)
(***************************************************************************)
EXTENDS Integers, Sequences, FiniteSets, TLC

VARIABLES
    AddedEndpoints,     \* DiffResult.AddedEndpoints    []string
    DeletedEndpoints,   \* DiffResult.DeletedEndpoints  []string
    ModifiedEndpoints,  \* DiffResult.ModifiedEndpoints map[string]*EndpointDiff
    lastCall,           \* the last DiffResult method called, its arguments and the receiver before it
    schemaRefs1,        \* first argument of getSchemaListsDiff
    schemaRefs2,        \* second argument of getSchemaListsDiff
    listCall,           \* results of the schema list functions on (schemaRefs1, schemaRefs2)
    operation1,         \* first argument of getMethodDiff
    operation2,         \* second argument of getMethodDiff
    methodDiff          \* the MethodDiff built by getMethodDiff

resultVars == <<AddedEndpoints, DeletedEndpoints, ModifiedEndpoints, lastCall>>
listVars   == <<schemaRefs1, schemaRefs2, listCall>>
methodVars == <<operation1, operation2, methodDiff>>
vars       == <<resultVars, listVars, methodVars>>

(***************************************************************************)
(* Bounds of the model.                                                    *)
(***************************************************************************)
MaxEndpoints == 3      \* entries of a DiffResult, over its three containers
MaxSchemaRefs == 5     \* schemas of the two lists handed to getSchemaListsDiff, together
MaxWithNil == 3        \* elements of the two lists together, when one of them is nil

\* A Go pointer is a sequence of at most one element: Nil, or Ptr(the value)
Nil == <<>>
Ptr(x) == <<x>>

(***************************************************************************)
(* regexp.Compile / Regexp.MatchString, restricted to the pattern alphabet *)
(* a, b, c (literals), "." (any character), "*" (repetition), "(" (group). *)
(***************************************************************************)
\* Endpoint identifiers ("METHOD PATH" at the result boundary)
Endpoints == { <<"a">>, <<"b">>, <<"a", "b">> }

\* Filters handed to FilterByRegex: .*  a  b  ab  a.  b*a  c  (empty)  and
\* four that regexp.Compile rejects: (  *  a**  a(
ValidFilters ==
    { <<".", "*">>, <<"a">>, <<"b">>, <<"a", "b">>, <<"a", ".">>,
      <<"b", "*", "a">>, <<"c">>, <<>> }
InvalidFilters ==
    { <<"(">>, <<"*">>, <<"a", "*", "*">>, <<"a", "(">> }
Filters == ValidFilters \cup InvalidFilters

\* One parsing step of regexp/syntax: the stack of parsed atoms, whether the
\* previous token was a repetition operator, and the error found so far.
ParseStep(st, c) ==
    IF st.err THEN st
    ELSE IF c = "*" THEN
        IF st.lastRepeat \/ st.stack = <<>> \/ st.stack[Len(st.stack)].op = "leftParen"
        THEN [st EXCEPT !.err = TRUE]
        ELSE [st EXCEPT !.stack[Len(st.stack)].star = TRUE, !.lastRepeat = TRUE]
    ELSE IF c = "(" THEN
        [st EXCEPT !.stack = Append(@, [op |-> "leftParen", c |-> c, star |-> FALSE]),
                   !.lastRepeat = FALSE]
    ELSE IF c = "." THEN
        [st EXCEPT !.stack = Append(@, [op |-> "anyChar", c |-> c, star |-> FALSE]),
                   !.lastRepeat = FALSE]
    ELSE
        [st EXCEPT !.stack = Append(@, [op |-> "literal", c |-> c, star |-> FALSE]),
                   !.lastRepeat = FALSE]

RECURSIVE ParseFrom(_, _, _)
ParseFrom(filter, i, st) ==
    IF i > Len(filter) THEN st
    ELSE ParseFrom(filter, i + 1, ParseStep(st, filter[i]))

\* regexp.Compile(filter): (r, err)
Compile(filter) ==
    LET st == ParseFrom(filter, 1, [stack |-> <<>>, lastRepeat |-> FALSE, err |-> FALSE])
        unclosed == \E k \in 1..Len(st.stack) : st.stack[k].op = "leftParen"
    IN  IF st.err \/ unclosed
        THEN [r |-> <<>>, err |-> TRUE]
        ELSE [r |-> st.stack, err |-> FALSE]

AtomMatches(atom, ch) ==
    IF atom.op = "anyChar" THEN TRUE ELSE atom.c = ch

RECURSIVE MatchHere(_, _, _, _)
MatchHere(r, k, s, i) ==
    IF k > Len(r) THEN TRUE
    ELSE IF r[k].star THEN
        \/ MatchHere(r, k + 1, s, i)
        \/ (i <= Len(s) /\ AtomMatches(r[k], s[i]) /\ MatchHere(r, k, s, i + 1))
    ELSE i <= Len(s) /\ AtomMatches(r[k], s[i]) /\ MatchHere(r, k + 1, s, i + 1)

\* r.MatchString(s): the pattern matches some substring of s
MatchString(r, s) == \E i \in 1..(Len(s) + 1) : MatchHere(r, 1, s, i)

(***************************************************************************)
(* DiffResult (src/diff/diff_result.go)                                    *)
(***************************************************************************)
\* Path items whose diff addModifiedEndpoint records
PathItems == {"p", "q"}

\* The endpoint diff of two path items; Nil when they do not differ
diffEndpoint(pathItem1, pathItem2) ==
    IF pathItem1 = pathItem2 THEN Nil ELSE Ptr([From |-> pathItem1, To |-> pathItem2])

\* ModifiedEndpoints.addEndpointDiff: the key is set only for a non-empty diff
addEndpointDiff(modifiedEndpoints, entrypoint1, pathItem1, pathItem2) ==
    LET d == diffEndpoint(pathItem1, pathItem2) IN
    IF d = Nil THEN modifiedEndpoints
    ELSE [k \in DOMAIN modifiedEndpoints \cup {entrypoint1} |->
            IF k = entrypoint1 THEN d ELSE modifiedEndpoints[k]]

\* The receiver as one value
DiffResult == [AddedEndpoints    |-> AddedEndpoints,
               DeletedEndpoints  |-> DeletedEndpoints,
               ModifiedEndpoints |-> ModifiedEndpoints]

newDiffResult == [AddedEndpoints |-> <<>>, DeletedEndpoints |-> <<>>, ModifiedEndpoints |-> <<>>]

empty(diffResult) ==
    /\ Len(diffResult.AddedEndpoints) = 0
    /\ Len(diffResult.DeletedEndpoints) = 0
    /\ Cardinality(DOMAIN diffResult.ModifiedEndpoints) = 0

RECURSIVE filterEndpointsFrom(_, _, _, _)
filterEndpointsFrom(endpoints, r, i, result) ==
    IF i > Len(endpoints) THEN result
    ELSE filterEndpointsFrom(endpoints, r, i + 1,
            IF MatchString(r, endpoints[i]) THEN Append(result, endpoints[i]) ELSE result)

\* Mutant of filterEndpoints: the test of the loop is inverted
filterEndpoints_inverted(endpoints, r) ==
    SelectSeq(endpoints, LAMBDA endpoint : ~MatchString(r, endpoint))

filterEndpoints(endpoints, r) == filterEndpointsFrom(endpoints, r, 1, <<>>)

filterModifiedEndpoints(modifiedEndpoints, r) ==
    [endpoint \in {e \in DOMAIN modifiedEndpoints : MatchString(r, e)} |->
        modifiedEndpoints[endpoint]]

\* Number of entries the receiver holds
Size == Len(AddedEndpoints) + Len(DeletedEndpoints) + Cardinality(DOMAIN ModifiedEndpoints)

Call(op, endpoint, filter, err) ==
    [op |-> op, endpoint |-> endpoint, filter |-> filter, err |-> err, pre |-> DiffResult]

addAddedEndpoint(endpoint) ==
    /\ Size < MaxEndpoints
    /\ AddedEndpoints' = Append(AddedEndpoints, endpoint)
    /\ lastCall' = Call("addAddedEndpoint", endpoint, <<>>, FALSE)
    /\ UNCHANGED <<DeletedEndpoints, ModifiedEndpoints>>

addDeletedEndpoint(endpoint) ==
    /\ Size < MaxEndpoints
    /\ DeletedEndpoints' = Append(DeletedEndpoints, endpoint)
    /\ lastCall' = Call("addDeletedEndpoint", endpoint, <<>>, FALSE)
    /\ UNCHANGED <<AddedEndpoints, ModifiedEndpoints>>

addModifiedEndpoint(entrypoint1, pathItem1, pathItem2) ==
    /\ Size < MaxEndpoints
    /\ ModifiedEndpoints' = addEndpointDiff(ModifiedEndpoints, entrypoint1, pathItem1, pathItem2)
    /\ lastCall' = Call("addModifiedEndpoint", entrypoint1, <<>>, FALSE)
    /\ UNCHANGED <<AddedEndpoints, DeletedEndpoints>>

\* Mutant of FilterByRegex: a failed compilation resets the receiver (fails closed)
FilterByRegex_failClosed(filter) ==
    LET c == Compile(filter) IN
    /\ lastCall' = Call("FilterByRegex", <<>>, filter, c.err)
    /\ AddedEndpoints' = (IF c.err THEN <<>> ELSE filterEndpoints(AddedEndpoints, c.r))
    /\ DeletedEndpoints' = (IF c.err THEN <<>> ELSE filterEndpoints(DeletedEndpoints, c.r))
    /\ ModifiedEndpoints' =
          (IF c.err THEN <<>> ELSE filterModifiedEndpoints(ModifiedEndpoints, c.r))

\* Mutant of FilterByRegex: DeletedEndpoints is filtered from AddedEndpoints
FilterByRegex_wrongSource(filter) ==
    LET c == Compile(filter) IN
    /\ lastCall' = Call("FilterByRegex", <<>>, filter, c.err)
    /\ IF c.err
       THEN UNCHANGED <<AddedEndpoints, DeletedEndpoints, ModifiedEndpoints>>
       ELSE /\ AddedEndpoints' = filterEndpoints(AddedEndpoints, c.r)
            /\ DeletedEndpoints' = filterEndpoints(AddedEndpoints, c.r)
            /\ ModifiedEndpoints' = filterModifiedEndpoints(ModifiedEndpoints, c.r)

FilterByRegex(filter) ==
    LET c == Compile(filter) IN
    /\ lastCall' = Call("FilterByRegex", <<>>, filter, c.err)
    /\ IF c.err
       THEN UNCHANGED <<AddedEndpoints, DeletedEndpoints, ModifiedEndpoints>>
       ELSE /\ AddedEndpoints' = filterEndpoints(AddedEndpoints, c.r)
            /\ DeletedEndpoints' = filterEndpoints(DeletedEndpoints, c.r)
            /\ ModifiedEndpoints' = filterModifiedEndpoints(ModifiedEndpoints, c.r)

InitResult ==
    /\ AddedEndpoints = newDiffResult.AddedEndpoints
    /\ DeletedEndpoints = newDiffResult.DeletedEndpoints
    /\ ModifiedEndpoints = newDiffResult.ModifiedEndpoints
    /\ lastCall = [op |-> "newDiffResult", endpoint |-> <<>>, filter |-> <<>>,
                   err |-> FALSE, pre |-> newDiffResult]

IdleList == schemaRefs1 = <<>> /\ schemaRefs2 = <<>> /\ listCall = Nil
IdleMethod == operation1 = <<>> /\ operation2 = <<>> /\ methodDiff = Nil

Init == InitResult /\ IdleList /\ IdleMethod

Next ==
    \/ \E e \in Endpoints : addAddedEndpoint(e) /\ UNCHANGED <<listVars, methodVars>>
    \/ \E e \in Endpoints : addDeletedEndpoint(e) /\ UNCHANGED <<listVars, methodVars>>
    \/ \E e \in Endpoints, p1 \in PathItems, p2 \in PathItems :
          addModifiedEndpoint(e, p1, p2) /\ UNCHANGED <<listVars, methodVars>>
    \/ \E f \in Filters : FilterByRegex(f) /\ UNCHANGED <<listVars, methodVars>>

Spec == Init /\ [][Next]_vars

(***************************************************************************)
(* SchemaListDiff (src/unnamed/part_000, lines 1-206)                      *)
(***************************************************************************)
\* openapi3.SchemaRef: Ref is the reference name ("" for an inline schema),
\* Type and Title stand for the fields of the schema value. An element of
\* openapi3.SchemaRefs is a *SchemaRef: Nil, or Ptr of such a record.
Inline(type, title) == Ptr([Ref |-> "", Type |-> type, Title |-> title])
Referenced(ref, type) == Ptr([Ref |-> ref, Type |-> type, Title |-> "t1"])

SchemaRefUniverse ==
    { Inline("string", "t1"), Inline("string", "t2"),
      Inline("integer", "t1"), Inline("integer", "t2"),
      Referenced("X", "string"), Referenced("X", "integer") }

\* The values of type *SchemaRef: the schemas above and the nil pointer
SchemaRefPointers == SchemaRefUniverse \cup {Nil}

\* reflect.DeepEqual on two *SchemaRef: both nil, or neither nil and every
\* field of the two values agrees
DeepEqual(schemaRef1, schemaRef2) ==
    IF schemaRef1 = Nil \/ schemaRef2 = Nil
    THEN schemaRef1 = Nil /\ schemaRef2 = Nil
    ELSE /\ schemaRef1[1].Ref = schemaRef2[1].Ref
         /\ schemaRef1[1].Type = schemaRef2[1].Type
         /\ schemaRef1[1].Title = schemaRef2[1].Title

\* The type of a schema, "" for an absent one
TypeOf(schemaRef) == IF schemaRef = Nil THEN "" ELSE schemaRef[1].Type

\* getSchemaDiff: the recursive schema diff of two schemas, Nil when none of
\* the fields it compares (here: the type) differs. The title is not compared.
getSchemaDiff(schemaRef1, schemaRef2) ==
    IF TypeOf(schemaRef1) = TypeOf(schemaRef2) THEN Nil
    ELSE Ptr([TypeDiff |-> [From |-> TypeOf(schemaRef1), To |-> TypeOf(schemaRef2)]])

\* SchemaDiff.Empty
SchemaDiffEmpty(d) == d = Nil

\* ModifiedSchemas.addSchemaDiff: the key is set only for a non-empty diff
addSchemaDiff(modified, ref, schema1, schema2) ==
    LET d == getSchemaDiff(schema1, schema2) IN
    IF SchemaDiffEmpty(d) THEN modified
    ELSE [k \in DOMAIN modified \cup {ref} |-> IF k = ref THEN d ELSE modified[k]]

\* ModifiedSchemas.combine: the union of the two mappings
ModifiedSchemas_combine(modified, other) ==
    [k \in DOMAIN modified \cup DOMAIN other |->
        IF k \in DOMAIN other THEN other[k] ELSE modified[k]]

\* The zero value SchemaListDiff{}
ZeroSchemaListDiff == [Added |-> 0, Deleted |-> 0, Modified |-> <<>>]

\* SchemaListDiff.Empty, on a pointer
Empty(diff) ==
    IF diff = Nil THEN TRUE
    ELSE /\ diff[1].Added = 0
         /\ diff[1].Deleted = 0
         /\ Cardinality(DOMAIN diff[1].Modified) = 0

isSchemaInline(schemaRef) ==
    IF schemaRef = Nil THEN FALSE ELSE schemaRef[1].Ref = ""

isSchemaRef(schemaRef) ==
    IF schemaRef = Nil THEN FALSE ELSE schemaRef[1].Ref # ""

\* The two predicates as values of type SchemaRefsFilter
isSchemaInlineFilter == [schemaRef \in SchemaRefPointers |-> isSchemaInline(schemaRef)]
isSchemaRefFilter == [schemaRef \in SchemaRefPointers |-> isSchemaRef(schemaRef)]

\* Element of a Go slice at a zero-based index
At(slice, index) == slice[index + 1]

\* toSchemaRefsMap panics: !isSchemaInline(schemaRef) holds of a nil element,
\* and schemaRef.Ref then dereferences it
toSchemaRefsMap_panics(schemaRefs) ==
    \E i \in 1..Len(schemaRefs) :
        ~isSchemaInline(schemaRefs[i]) /\ schemaRefs[i] = Nil

\* toSchemaRefsMap, when it does not panic: a later element replaces an
\* earlier one of the same name
toSchemaRefsMap(schemaRefs) ==
    LET named == { i \in 1..Len(schemaRefs) : ~isSchemaInline(schemaRefs[i]) }
        last(ref) == CHOOSE i \in named :
                        /\ schemaRefs[i][1].Ref = ref
                        /\ \A j \in named : schemaRefs[j][1].Ref = ref => j <= i
    IN  [ref \in { schemaRefs[i][1].Ref : i \in named } |-> schemaRefs[last(ref)]]

\* SchemaListDiff.combine
combine(diff, other) ==
    [Added    |-> diff.Added + other.Added,
     Deleted  |-> diff.Deleted + other.Deleted,
     Modified |-> ModifiedSchemas_combine(diff.Modified, other.Modified)]

RECURSIVE addSchemaDiffs(_, _, _, _)
addSchemaDiffs(modified, refs, schemaMap1, schemaMap2) ==
    IF refs = {} THEN modified
    ELSE LET ref == CHOOSE r \in refs : TRUE IN
         addSchemaDiffs(addSchemaDiff(modified, ref, schemaMap1[ref], schemaMap2[ref]),
                        refs \ {ref}, schemaMap1, schemaMap2)

\* Mutant of getSchemaMapsRefsDiff: added counts every name of schemaMap2
getSchemaMapsRefsDiff_countsAll(schemaMap1, schemaMap2) ==
    [Added    |-> Cardinality(DOMAIN schemaMap2),
     Deleted  |-> Cardinality(DOMAIN schemaMap1 \ DOMAIN schemaMap2),
     Modified |-> addSchemaDiffs(<<>>, DOMAIN schemaMap1 \cap DOMAIN schemaMap2,
                                 schemaMap1, schemaMap2)]

getSchemaMapsRefsDiff(schemaMap1, schemaMap2) ==
    [Added    |-> Cardinality(DOMAIN schemaMap2 \ DOMAIN schemaMap1),
     Deleted  |-> Cardinality(DOMAIN schemaMap1 \ DOMAIN schemaMap2),
     Modified |-> addSchemaDiffs(<<>>, DOMAIN schemaMap1 \cap DOMAIN schemaMap2,
                                 schemaMap1, schemaMap2)]

getSchemaListsRefsDiff(list1, list2) ==
    getSchemaMapsRefsDiff(toSchemaRefsMap(list1), toSchemaRefsMap(list2))

\* Mutant of alreadyMatched: no element counts as matched
alreadyMatched_never(index, matched) == FALSE

alreadyMatched(index, matched) == index \in matched

\* findIndenticalSchema: <<found, index2>>, the first element of schemasRefs2
\* that is not matched yet and is deeply equal to schemaRef1
findIndenticalSchema(schemaRef1, schemasRefs2, matched) ==
    LET hits == { index2 \in 0..(Len(schemasRefs2) - 1) :
                    /\ ~alreadyMatched(index2, matched)
                    /\ DeepEqual(schemaRef1, At(schemasRefs2, index2)) }
    IN  IF hits = {} THEN <<FALSE, 0>>
        ELSE <<TRUE, CHOOSE index2 \in hits : \A h \in hits : index2 <= h>>

RECURSIVE getGroupDifferenceFrom(_, _, _, _, _)
getGroupDifferenceFrom(list1, list2, index1, notContained, matched) ==
    IF index1 >= Len(list1) THEN notContained
    ELSE LET f == findIndenticalSchema(At(list1, index1), list2, matched) IN
         IF ~f[1]
         THEN getGroupDifferenceFrom(list1, list2, index1 + 1,
                                     Append(notContained, index1), matched)
         ELSE getGroupDifferenceFrom(list1, list2, index1 + 1,
                                     notContained, matched \cup {f[2]})

\* getGroupDifference: the zero-based indices of list1 left unmatched
getGroupDifference(list1, list2) == getGroupDifferenceFrom(list1, list2, 0, <<>>, {})

\* strconv of a non-negative integer, as fmt.Sprintf("%d") prints it
Digit(d) == <<"0", "1", "2", "3", "4", "5", "6", "7", "8", "9">>[d + 1]

RECURSIVE FormatInt(_)
FormatInt(n) == IF n < 10 THEN Digit(n) ELSE FormatInt(n \div 10) \o Digit(n % 10)

\* fmt.Sprintf("#%d", n)
SyntheticKey(n) == "#" \o FormatInt(n)

\* Mutant of getSchemaListsInlineDiff: the key is the zero-based index
getSchemaListsInlineDiff_zeroBased(list1, list2) ==
    LET added   == getGroupDifference(list2, list1)
        deleted == getGroupDifference(list1, list2)
    IN  IF Len(added) = 1 /\ Len(deleted) = 1
        THEN LET d == getSchemaDiff(At(list1, At(deleted, 0)), At(list2, At(added, 0))) IN
             IF SchemaDiffEmpty(d) THEN ZeroSchemaListDiff
             ELSE [Added |-> 0, Deleted |-> 0,
                   Modified |-> (SyntheticKey(At(deleted, 0)) :> d)]
        ELSE [Added |-> Len(added), Deleted |-> Len(deleted), Modified |-> <<>>]

\* Mutant of getSchemaListsInlineDiff: the two counters are exchanged
getSchemaListsInlineDiff_exchanged(list1, list2) ==
    LET added   == getGroupDifference(list2, list1)
        deleted == getGroupDifference(list1, list2)
    IN  IF Len(added) = 1 /\ Len(deleted) = 1
        THEN LET d == getSchemaDiff(At(list1, At(deleted, 0)), At(list2, At(added, 0))) IN
             IF SchemaDiffEmpty(d) THEN ZeroSchemaListDiff
             ELSE [Added |-> 0, Deleted |-> 0,
                   Modified |-> (SyntheticKey(1 + At(deleted, 0)) :> d)]
        ELSE [Added |-> Len(deleted), Deleted |-> Len(added), Modified |-> <<>>]

\* Mutant of getSchemaListsInlineDiff: a pair with an empty diff is kept
getSchemaListsInlineDiff_keepsEmpty(list1, list2) ==
    LET added   == getGroupDifference(list2, list1)
        deleted == getGroupDifference(list1, list2)
    IN  IF Len(added) = 1 /\ Len(deleted) = 1
        THEN LET d == getSchemaDiff(At(list1, At(deleted, 0)), At(list2, At(added, 0))) IN
             [Added |-> 0, Deleted |-> 0,
              Modified |-> (SyntheticKey(1 + At(deleted, 0)) :> d)]
        ELSE [Added |-> Len(added), Deleted |-> Len(deleted), Modified |-> <<>>]

getSchemaListsInlineDiff(list1, list2) ==
    LET added   == getGroupDifference(list2, list1)
        deleted == getGroupDifference(list1, list2)
    IN  IF Len(added) = 1 /\ Len(deleted) = 1
        THEN LET d == getSchemaDiff(At(list1, At(deleted, 0)), At(list2, At(added, 0))) IN
             IF SchemaDiffEmpty(d) THEN ZeroSchemaListDiff
             ELSE [Added |-> 0, Deleted |-> 0,
                   Modified |-> (SyntheticKey(1 + At(deleted, 0)) :> d)]
        ELSE [Added |-> Len(added), Deleted |-> Len(deleted), Modified |-> <<>>]

\* filterSchemaRefs: result collects the elements that pass the filter; the
\* function returns schemaRefs, its argument
filterSchemaRefs(schemaRefs, filter) ==
    LET result == SelectSeq(schemaRefs, LAMBDA schemaRef : filter[schemaRef]) IN schemaRefs

getSchemaListsDiffInternal(list1, list2) ==
    LET diffRefs == getSchemaListsRefsDiff(filterSchemaRefs(list1, isSchemaRefFilter),
                                           filterSchemaRefs(list2, isSchemaRefFilter))
        diffInline == getSchemaListsInlineDiff(filterSchemaRefs(list1, isSchemaInlineFilter),
                                               filterSchemaRefs(list2, isSchemaInlineFilter))
    IN  combine(diffRefs, diffInline)

\* getSchemaListsDiff panics: getSchemaListsDiffInternal first hands the two
\* lists filterSchemaRefs returns to getSchemaListsRefsDiff, which calls
\* toSchemaRefsMap on each
getSchemaListsDiff_panics(list1, list2) ==
    \/ toSchemaRefsMap_panics(filterSchemaRefs(list1, isSchemaRefFilter))
    \/ toSchemaRefsMap_panics(filterSchemaRefs(list2, isSchemaRefFilter))

\* getSchemaListsDiffInternal always returns a diff; nil stands for an empty one
getSchemaListsDiff(list1, list2) ==
    LET diff == Ptr(getSchemaListsDiffInternal(list1, list2)) IN
    IF Empty(diff) THEN Nil ELSE diff

\* One call of getSchemaListsDiff(schemaRefs1, schemaRefs2): it panics, or
\* returns; the record keeps the values its callees were handed and returned
CallGetSchemaListsDiff ==
    /\ listCall = Nil
    /\ IF getSchemaListsDiff_panics(schemaRefs1, schemaRefs2)
       THEN listCall' = Ptr([op |-> "getSchemaListsDiff", panic |-> TRUE])
       ELSE LET inline1 == filterSchemaRefs(schemaRefs1, isSchemaInlineFilter)
                inline2 == filterSchemaRefs(schemaRefs2, isSchemaInlineFilter)
            IN  listCall' = Ptr(
                  [op         |-> "getSchemaListsDiff",
                   panic      |-> FALSE,
                   inline1    |-> inline1,
                   inline2    |-> inline2,
                   diffRefs   |-> getSchemaListsRefsDiff(
                                    filterSchemaRefs(schemaRefs1, isSchemaRefFilter),
                                    filterSchemaRefs(schemaRefs2, isSchemaRefFilter)),
                   diffInline |-> getSchemaListsInlineDiff(inline1, inline2),
                   internal   |-> getSchemaListsDiffInternal(schemaRefs1, schemaRefs2),
                   diff       |-> getSchemaListsDiff(schemaRefs1, schemaRefs2)])
    /\ UNCHANGED <<schemaRefs1, schemaRefs2>>

\* The two passes of getGroupDifference over (schemaRefs1, schemaRefs2), as
\* getSchemaListsInlineDiff makes them
CallGetGroupDifference ==
    /\ listCall = Nil
    /\ listCall' = Ptr(
          [op      |-> "getGroupDifference",
           panic   |-> FALSE,
           added   |-> getGroupDifference(schemaRefs2, schemaRefs1),
           deleted |-> getGroupDifference(schemaRefs1, schemaRefs2)])
    /\ UNCHANGED <<schemaRefs1, schemaRefs2>>

\* The values of type openapi3.SchemaRefs of at most maxLen elements, each
\* drawn from the set pointers
SchemaLists(pointers, maxLen) ==
    UNION { [1..n -> pointers] : n \in 0..maxLen }

HasNil(list) == \E i \in 1..Len(list) : list[i] = Nil

InitList ==
    /\ \/ /\ schemaRefs1 \in SchemaLists(SchemaRefUniverse, MaxSchemaRefs)
          /\ schemaRefs2 \in SchemaLists(SchemaRefUniverse, MaxSchemaRefs - Len(schemaRefs1))
       \/ /\ schemaRefs1 \in SchemaLists(SchemaRefPointers, MaxWithNil)
          /\ schemaRefs2 \in SchemaLists(SchemaRefPointers, MaxWithNil - Len(schemaRefs1))
          /\ HasNil(schemaRefs1) \/ HasNil(schemaRefs2)
    /\ listCall = Nil

NextList ==
    \/ CallGetSchemaListsDiff /\ UNCHANGED <<resultVars, methodVars>>
    \/ CallGetGroupDifference /\ UNCHANGED <<resultVars, methodVars>>

InitSchemaList == InitList /\ InitResult /\ IdleMethod

SpecSchemaList == InitSchemaList /\ [][NextList]_vars

(***************************************************************************)
(* MethodDiff (src/unnamed/part_000, lines 208-272)                        *)
(***************************************************************************)
\* The fields of openapi3.Operation that getMethodDiff reads
OperationFields ==
    { "Tags", "Summary", "Description", "OperationID", "Parameters",
      "RequestBody", "Responses", "Callbacks", "Deprecated", "Servers" }

FieldValues == {"u", "v"}

Operations == [OperationFields -> FieldValues]

\* getValueDiff: Nil when the two values are equal
getValueDiff(value1, value2) ==
    IF value1 = value2 THEN Nil ELSE Ptr([From |-> value1, To |-> value2])

\* The diff of two collections: what the second adds and what it drops. It is
\* a value of its own whether or not anything was added or dropped.
CollectionDiff(c1, c2) ==
    [Added   |-> IF c1 = c2 THEN {} ELSE {c2},
     Deleted |-> IF c1 = c2 THEN {} ELSE {c1}]

\* empty() of a collection diff, on a pointer
CollectionDiff_empty(diff) ==
    IF diff = Nil THEN TRUE ELSE diff[1].Added = {} /\ diff[1].Deleted = {}

\* getStringsDiff: Nil when the two lists hold the same strings
getStringsDiff(strings1, strings2) ==
    IF CollectionDiff_empty(Ptr(CollectionDiff(strings1, strings2))) THEN Nil
    ELSE Ptr(CollectionDiff(strings1, strings2))

\* getParametersDiff, getRequestBodyDiff, getResponsesDiff, getCallbacksDiff
\* and getServersDiff: a pointer to a diff that may be empty
getParametersDiff(params1, params2) == Ptr(CollectionDiff(params1, params2))
getRequestBodyDiff(body1, body2) == Ptr(CollectionDiff(body1, body2))
getResponsesDiff(responses1, responses2) == Ptr(CollectionDiff(responses1, responses2))
getCallbacksDiff(callbacks1, callbacks2) == Ptr(CollectionDiff(callbacks1, callbacks2))
getServersDiff(servers1, servers2) == Ptr(CollectionDiff(servers1, servers2))

\* newMethodDiff: &MethodDiff{}, every field nil
newMethodDiff ==
    [TagsDiff |-> Nil, SummaryDiff |-> Nil, DescriptionDiff |-> Nil,
     OperationIDDiff |-> Nil, ParametersDiff |-> Nil, RequestBodyDiff |-> Nil,
     ResponsesDiff |-> Nil, CallbacksDiff |-> Nil, DeprecatedDiff |-> Nil,
     ServersDiff |-> Nil]

\* MethodDiff.empty: *methodDiff == MethodDiff{}, every pointer field is nil
MethodDiff_empty(md) == md = newMethodDiff

\* if diff := get...Diff(...); !diff.empty() { result.Field = diff }
IfNotEmpty(diff) == IF ~CollectionDiff_empty(diff) THEN diff ELSE Nil

\* Mutant of getMethodDiff: ParametersDiff is assigned without the empty() test
getMethodDiff_unguarded(pathItem1, pathItem2) ==
    [TagsDiff        |-> getStringsDiff(pathItem1.Tags, pathItem2.Tags),
     SummaryDiff     |-> getValueDiff(pathItem1.Summary, pathItem2.Summary),
     DescriptionDiff |-> getValueDiff(pathItem1.Description, pathItem2.Description),
     OperationIDDiff |-> getValueDiff(pathItem1.OperationID, pathItem2.OperationID),
     ParametersDiff  |-> getParametersDiff(pathItem1.Parameters, pathItem2.Parameters),
     RequestBodyDiff |-> IfNotEmpty(getRequestBodyDiff(pathItem1.RequestBody, pathItem2.RequestBody)),
     ResponsesDiff   |-> IfNotEmpty(getResponsesDiff(pathItem1.Responses, pathItem2.Responses)),
     CallbacksDiff   |-> IfNotEmpty(getCallbacksDiff(pathItem1.Callbacks, pathItem2.Callbacks)),
     DeprecatedDiff  |-> getValueDiff(pathItem1.Deprecated, pathItem2.Deprecated),
     ServersDiff     |-> IfNotEmpty(getServersDiff(pathItem1.Servers, pathItem2.Servers))]

getMethodDiff(pathItem1, pathItem2) ==
    [newMethodDiff EXCEPT
       !.TagsDiff        = getStringsDiff(pathItem1.Tags, pathItem2.Tags),
       !.SummaryDiff     = getValueDiff(pathItem1.Summary, pathItem2.Summary),
       !.DescriptionDiff = getValueDiff(pathItem1.Description, pathItem2.Description),
       !.OperationIDDiff = getValueDiff(pathItem1.OperationID, pathItem2.OperationID),
       !.ParametersDiff  = IfNotEmpty(getParametersDiff(pathItem1.Parameters, pathItem2.Parameters)),
       !.RequestBodyDiff = IfNotEmpty(getRequestBodyDiff(pathItem1.RequestBody, pathItem2.RequestBody)),
       !.ResponsesDiff   = IfNotEmpty(getResponsesDiff(pathItem1.Responses, pathItem2.Responses)),
       !.CallbacksDiff   = IfNotEmpty(getCallbacksDiff(pathItem1.Callbacks, pathItem2.Callbacks)),
       !.DeprecatedDiff  = getValueDiff(pathItem1.Deprecated, pathItem2.Deprecated),
       !.ServersDiff     = IfNotEmpty(getServersDiff(pathItem1.Servers, pathItem2.Servers))]

\* One call of getMethodDiff(operation1, operation2)
CallGetMethodDiff ==
    /\ methodDiff = Nil
    /\ methodDiff' = Ptr(getMethodDiff(operation1, operation2))
    /\ UNCHANGED <<operation1, operation2>>

InitMethod ==
    /\ operation1 \in { [f \in OperationFields |-> v] : v \in FieldValues }
    /\ operation2 \in Operations
    /\ methodDiff = Nil

NextMethod == CallGetMethodDiff /\ UNCHANGED <<resultVars, listVars>>

InitMethodDiff == InitMethod /\ InitResult /\ IdleList

SpecMethodDiff == InitMethodDiff /\ [][NextMethod]_vars

(***************************************************************************)
(* Properties of DiffResult, checked under Spec                            *)
(***************************************************************************)
Range(seq) == { seq[i] : i \in 1..Len(seq) }

Filtered == lastCall.op = "FilterByRegex"

\* The filter of the last call matches the endpoint identifier
Matches(endpoint) == MatchString(Compile(lastCall.filter).r, endpoint)

\* The positions of a sequence whose entry the last filter matches
Kept(seq) == { i \in 1..Len(seq) : Matches(seq[i]) }

\* after holds the matching entries of before, and no other, in their order
KeepsMatching(before, after) ==
    /\ Len(after) = Cardinality(Kept(before))
    /\ \A i \in Kept(before) :
          after[Cardinality({ k \in Kept(before) : k <= i })] = before[i]

\* C1: FilterByRegex with a pattern that fails to compile leaves the three
\* containers of the DiffResult exactly as they were before the call.
C1_InvalidFilterIsNoOp ==
    (Filtered /\ (lastCall.err \/ lastCall.filter \in InvalidFilters))
        => /\ lastCall.err
           /\ DiffResult = lastCall.pre

C1_Witness ==
    /\ Filtered /\ lastCall.err
    /\ AddedEndpoints # <<>> /\ DeletedEndpoints # <<>> /\ ModifiedEndpoints # <<>>

\* C2: FilterByRegex with a pattern that compiles keeps an entry of each of
\* the three containers if and only if its identifier (its key) matches the
\* pattern, in the original order and with the original diff of each kept
\* key; ".*" (and any pattern matching every identifier) is the identity and
\* a pattern matching no identifier empties the three containers.
C2_FilterKeepsExactlyMatching ==
    (Filtered /\ ~lastCall.err) =>
        /\ KeepsMatching(lastCall.pre.AddedEndpoints, AddedEndpoints)
        /\ KeepsMatching(lastCall.pre.DeletedEndpoints, DeletedEndpoints)
        /\ DOMAIN ModifiedEndpoints =
              { k \in DOMAIN lastCall.pre.ModifiedEndpoints : Matches(k) }
        /\ \A k \in DOMAIN ModifiedEndpoints :
              ModifiedEndpoints[k] = lastCall.pre.ModifiedEndpoints[k]
        /\ (lastCall.filter = <<".", "*">> \/ \A e \in Endpoints : Matches(e))
              => DiffResult = lastCall.pre
        /\ (\A e \in Endpoints : ~Matches(e)) => empty(DiffResult)

C2_Witness ==
    /\ Filtered /\ ~lastCall.err
    /\ Len(lastCall.pre.AddedEndpoints) = 3
    /\ Len(AddedEndpoints) = 2 /\ AddedEndpoints[1] # AddedEndpoints[2]

\* No endpoint key is in two of the three containers of d
Disjoint(d) ==
    /\ Range(d.AddedEndpoints) \cap Range(d.DeletedEndpoints) = {}
    /\ Range(d.AddedEndpoints) \cap DOMAIN d.ModifiedEndpoints = {}
    /\ Range(d.DeletedEndpoints) \cap DOMAIN d.ModifiedEndpoints = {}

\* C8 as claimed: an endpoint key is in at most one of the three containers
\* in every state reachable from newDiffResult() by the add* methods and
\* FilterByRegex.
C8_KeyInAtMostOneContainer == Disjoint(DiffResult)

\* The last call added a key that another container already held
AddedHeldKey ==
    \/ /\ lastCall.op = "addAddedEndpoint"
       /\ lastCall.endpoint \in
            Range(lastCall.pre.DeletedEndpoints) \cup DOMAIN lastCall.pre.ModifiedEndpoints
    \/ /\ lastCall.op = "addDeletedEndpoint"
       /\ lastCall.endpoint \in
            Range(lastCall.pre.AddedEndpoints) \cup DOMAIN lastCall.pre.ModifiedEndpoints
    \/ /\ lastCall.op = "addModifiedEndpoint"
       /\ lastCall.endpoint \in
            Range(lastCall.pre.AddedEndpoints) \cup Range(lastCall.pre.DeletedEndpoints)

\* C8 as amended: newDiffResult() has the property, FilterByRegex keeps it,
\* and an add* method keeps it when the key it adds is in no other container;
\* the methods themselves do not refuse a key another container holds.
C8_DisjointKeptUnlessHeldKeyAdded ==
    (Disjoint(lastCall.pre) /\ ~AddedHeldKey) => Disjoint(DiffResult)

C8_Witness ==
    /\ Filtered /\ ~lastCall.err /\ Disjoint(lastCall.pre)
    /\ AddedEndpoints # <<>> /\ DeletedEndpoints # <<>>
    /\ Size < MaxEndpoints
(***************************************************************************)
(* Properties of the schema list diff, checked under SpecSchemaList        *)
(***************************************************************************)
\* getSchemaListsDiff was called and returned
Called ==
    /\ listCall # Nil
    /\ listCall[1].op = "getSchemaListsDiff"
    /\ ~listCall[1].panic

\* getSchemaListsDiff was called and panicked
Panicked ==
    /\ listCall # Nil
    /\ listCall[1].op = "getSchemaListsDiff"
    /\ listCall[1].panic

\* The two passes of getGroupDifference were made
GroupCalled == listCall # Nil /\ listCall[1].op = "getGroupDifference"

AllInline(list) == \A i \in 1..Len(list) : isSchemaInline(list[i])

AllReferenced(list) == \A i \in 1..Len(list) : isSchemaRef(list[i])

InlineLists == AllInline(schemaRefs1) /\ AllInline(schemaRefs2)

Names(list) == { list[i][1].Ref : i \in 1..Len(list) }

\* Occurrences of a schema in a list
Count(list, v) == Cardinality({ i \in 1..Len(list) : list[i] = v })

\* The zero-based indices of list1 that pairing equal elements one for one
\* with list2 leaves over: the occurrences of a schema beyond those list2 has
Leftover(list1, list2) ==
    { i \in 0..(Len(list1) - 1) :
        Cardinality({ j \in 0..i : At(list1, j) = At(list1, i) }) > Count(list2, At(list1, i)) }

\* seq lists the members of the set S of integers in increasing order
ListsInOrder(seq, S) ==
    /\ Len(seq) = Cardinality(S)
    /\ \A k \in 1..Len(seq) : seq[k] \in S
    /\ \A k \in 1..(Len(seq) - 1) : seq[k] < seq[k + 1]

\* Exactly one schema is left unmatched on each side
OnePairLeft ==
    /\ Cardinality(Leftover(schemaRefs1, schemaRefs2)) = 1
    /\ Cardinality(Leftover(schemaRefs2, schemaRefs1)) = 1

\* A=[S1,S2], B=[S1,S3]: S1 the same in both lists, S2 and S3 not deeply equal
PairExample ==
    /\ Called /\ InlineLists
    /\ Len(schemaRefs1) = 2 /\ Len(schemaRefs2) = 2
    /\ schemaRefs1[1] = schemaRefs2[1]
    /\ schemaRefs1[2] # schemaRefs2[2]

PairDiff == getSchemaDiff(schemaRefs1[2], schemaRefs2[2])

\* C3 as claimed: for inline lists A=[S1,S2], B=[S1,S3] whose S2 and S3 have
\* a non-empty schema diff, the schema list diff has added=0, deleted=0 and
\* one modified entry, under the key "#1", whose value is diff(S2,S3).
C3_PairUnderKey1 ==
    (PairExample /\ ~SchemaDiffEmpty(PairDiff)) =>
        listCall[1].internal = [Added |-> 0, Deleted |-> 0, Modified |-> ("#1" :> PairDiff)]

\* C3 as amended: for inline lists A=[S1,S2], B=[S1,S3] with S2 and S3 not
\* structurally equal, added=0 and deleted=0; when diff(S2,S3) is not empty
\* the one modified entry is under the key "#2" (one plus the zero-based
\* index of S2 in A) with value diff(S2,S3), and when it is empty there is no
\* modified entry.
C3_PairUnderKey2 ==
    PairExample =>
        /\ listCall[1].internal =
             [Added |-> 0, Deleted |-> 0,
              Modified |-> IF SchemaDiffEmpty(PairDiff) THEN <<>> ELSE ("#2" :> PairDiff)]
        /\ listCall[1].diffInline = listCall[1].internal

C3_Witness ==
    /\ PairExample /\ ~SchemaDiffEmpty(PairDiff)
    /\ DOMAIN listCall[1].internal.Modified = {"#2"}

\* C4: when the unmatched elements of two inline lists are not exactly one on
\* each side, the inline diff counts the unmatched elements of the second list
\* as added and those of the first as deleted, and has no modified entry;
\* A=[S1,S2], B=[S1,S3,S4] gives added=2, deleted=1, modified={}.
C4_AmbiguityFallback ==
    (Called /\ InlineLists /\ ~OnePairLeft) =>
        /\ listCall[1].diffInline =
             [Added    |-> Cardinality(Leftover(schemaRefs2, schemaRefs1)),
              Deleted  |-> Cardinality(Leftover(schemaRefs1, schemaRefs2)),
              Modified |-> <<>>]
        /\ listCall[1].internal = listCall[1].diffInline
        /\ ( /\ Len(schemaRefs1) = 2 /\ Len(schemaRefs2) = 3
             /\ schemaRefs1[1] = schemaRefs2[1]
             /\ Cardinality({schemaRefs1[1], schemaRefs1[2], schemaRefs2[2], schemaRefs2[3]}) = 4 )
           => listCall[1].internal = [Added |-> 2, Deleted |-> 1, Modified |-> <<>>]

C4_Witness ==
    /\ Called /\ InlineLists
    /\ Len(schemaRefs1) = 2 /\ Len(schemaRefs2) = 3
    /\ schemaRefs1[1] = schemaRefs2[1]
    /\ Cardinality({schemaRefs1[1], schemaRefs1[2], schemaRefs2[2], schemaRefs2[3]}) = 4
    /\ listCall[1].diffInline.Added = 2 /\ listCall[1].diffInline.Deleted = 1

\* C5 as claimed: filterSchemaRefs returns exactly the elements that satisfy
\* its filter, so the inline diff sees inline schemas only; for two lists of
\* referenced schemas, added is the number of names only in the second list,
\* deleted the number only in the first, and every modified key is a name.
C5_ListsArePartitioned ==
    Called =>
        /\ listCall[1].inline1 = SelectSeq(schemaRefs1, isSchemaInline)
        /\ listCall[1].inline2 = SelectSeq(schemaRefs2, isSchemaInline)
        /\ (AllReferenced(schemaRefs1) /\ AllReferenced(schemaRefs2)) =>
             /\ listCall[1].internal.Added =
                  Cardinality(Names(schemaRefs2) \ Names(schemaRefs1))
             /\ listCall[1].internal.Deleted =
                  Cardinality(Names(schemaRefs1) \ Names(schemaRefs2))
             /\ DOMAIN listCall[1].internal.Modified
                  \subseteq Names(schemaRefs1) \cup Names(schemaRefs2)

\* One inline schema is left unmatched on each side and their diff is empty
EmptyPair ==
    /\ Called /\ InlineLists /\ OnePairLeft
    /\ \A i \in Leftover(schemaRefs1, schemaRefs2), j \in Leftover(schemaRefs2, schemaRefs1) :
          SchemaDiffEmpty(getSchemaDiff(At(schemaRefs1, i), At(schemaRefs2, j)))

\* C6 as claimed: a single unmatched pair whose schema diff is empty is still
\* reported as a modified entry, so the inline diff is not empty.
C6_EmptyPairIsReported ==
    EmptyPair =>
        /\ DOMAIN listCall[1].diffInline.Modified # {}
        /\ ~Empty(Ptr(listCall[1].diffInline))

\* C6 as amended: a single unmatched pair whose schema diff is empty is
\* dropped: the inline diff is the empty SchemaListDiff (added=0, deleted=0,
\* no modified entry) and getSchemaListsDiff returns nil for the two lists.
C6_EmptyPairIsDropped ==
    EmptyPair =>
        /\ listCall[1].diffInline = ZeroSchemaListDiff
        /\ listCall[1].diff = Nil

C6_Witness ==
    /\ EmptyPair
    /\ Len(schemaRefs1) = 2
    /\ Leftover(schemaRefs1, schemaRefs2) = {1}

\* The diff of the two lists exchanged
Swapped == getSchemaListsDiffInternal(schemaRefs2, schemaRefs1)

\* C9: for any two schema lists, added of the diff of (A,B) is deleted of the
\* diff of (B,A) and deleted of (A,B) is added of (B,A), at the level of the
\* whole diff, of the referenced schemas and of the inline schemas; the pair
\* heuristic reports a modified entry for (A,B) exactly when it does for (B,A).
\* A call on lists with a nil element panics, and does so in both orders.
C9_SwapSymmetry ==
    /\ Panicked => getSchemaListsDiff_panics(schemaRefs2, schemaRefs1)
    /\ Called =>
        /\ ~getSchemaListsDiff_panics(schemaRefs2, schemaRefs1)
        /\ listCall[1].internal.Added = Swapped.Deleted
        /\ listCall[1].internal.Deleted = Swapped.Added
        /\ listCall[1].diffRefs.Added =
             getSchemaListsRefsDiff(schemaRefs2, schemaRefs1).Deleted
        /\ listCall[1].diffRefs.Deleted =
             getSchemaListsRefsDiff(schemaRefs2, schemaRefs1).Added
        /\ listCall[1].diffInline.Added =
             getSchemaListsInlineDiff(listCall[1].inline2, listCall[1].inline1).Deleted
        /\ listCall[1].diffInline.Deleted =
             getSchemaListsInlineDiff(listCall[1].inline2, listCall[1].inline1).Added
        /\ (DOMAIN listCall[1].diffInline.Modified = {}) <=>
             (DOMAIN getSchemaListsInlineDiff(listCall[1].inline2,
                                              listCall[1].inline1).Modified = {})

C9_Witness ==
    /\ Called
    /\ ~AllInline(schemaRefs1) /\ ~AllReferenced(schemaRefs1)
    /\ listCall[1].internal.Added = 1 /\ listCall[1].internal.Deleted = 3

\* C10: getGroupDifference(A,B) pairs equal elements one for one: it returns,
\* in increasing order, the indices of the occurrences in A of each schema
\* beyond the occurrences B has of it (A=[S,S], B=[S] leaves index 1), and
\* the two passes agree on the number of pairs: |A| - deleted = |B| - added.
C10_OneToOneMatching ==
    GroupCalled =>
        /\ ListsInOrder(listCall[1].deleted, Leftover(schemaRefs1, schemaRefs2))
        /\ ListsInOrder(listCall[1].added, Leftover(schemaRefs2, schemaRefs1))
        /\ Len(schemaRefs1) - Len(listCall[1].deleted) =
             Len(schemaRefs2) - Len(listCall[1].added)

C10_Witness ==
    /\ GroupCalled
    /\ Len(schemaRefs1) = 2 /\ schemaRefs1[1] = schemaRefs1[2]
    /\ schemaRefs2 = <<schemaRefs1[1]>>
    /\ listCall[1].deleted = <<1>> /\ listCall[1].added = <<>>

(***************************************************************************)
(* Properties of the operation diff, checked under SpecMethodDiff          *)
(***************************************************************************)
Built == methodDiff # Nil

\* The sub-diffs that are value diffs; the others are collection diffs
ValueDiffs == {"SummaryDiff", "DescriptionDiff", "OperationIDDiff", "DeprecatedDiff"}

\* The sub-diff of the field reports no difference: it is nil, or a
\* collection diff that holds nothing
SubDiffEmpty(md, field) ==
    IF field \in ValueDiffs THEN md[field] = Nil ELSE CollectionDiff_empty(md[field])

\* C7: for every MethodDiff that getMethodDiff builds, empty() is true if and
\* only if every one of the ten sub-diffs is empty, which is the case exactly
\* when the two operations agree on every field getMethodDiff compares.
C7_EmptyIffEverySubDiffEmpty ==
    Built =>
        /\ MethodDiff_empty(methodDiff[1]) <=>
             \A field \in DOMAIN methodDiff[1] : SubDiffEmpty(methodDiff[1], field)
        /\ MethodDiff_empty(methodDiff[1]) <=> operation1 = operation2

C7_Witness ==
    /\ Built
    /\ operation1 = operation2
    /\ MethodDiff_empty(methodDiff[1])
====
